---- MODULE Spec2Model ----
(***************************************************************************)
(* Route Information Manager of the name server                            *)
(* (rocketmq-namesrv/src/route/route_info_manager.rs).                     *)
(*                                                                         *)
(* The six tables and the configuration record of RouteInfoManager are the *)
(* state; register_broker and pickup_topic_route_data are operators over   *)
(* a record of the tables, translated statement by statement, and one      *)
(* action applies each of them.  Option<T> is a sequence of length 0       *)
(* (None) or 1 (Some), a HashMap is a function on the set of its keys, a   *)
(* HashSet is a set, a BrokerAddrInfo key is the pair <<cluster, addr>>.   *)
(***************************************************************************)
EXTENDS Integers, Sequences, FiniteSets, TLC

\* ---------------------------------------------------------------- bounds
NumClusters == 2
NumBrokerNames == 1
MaxBrokerId == 1
NumAddrs == 2
NumTopics == 2
NumZones == 1
NumFilterServers == 1
MaxStateVersion == 1
MaxTimestamp == 0
MaxCounter == 0
MaxNow == 0
MaxVersionStamp == 1

\* ------------------------------------------------------ program constants
MASTER_ID == 0
PERM_INHERIT == 1
PERM_WRITE == 2
PERM_READ == 4
DEFAULT_BROKER_CHANNEL_EXPIRED_TIME == 1000 * 60 * 2

\* ------------------------------------------------------------ name pools
ClusterPool == <<"DefaultCluster", "ClusterB", "ClusterC">>
BrokerNamePool == <<"broker-a", "broker-b", "broker-c">>
AddrPool == <<"10.0.0.1:10911", "10.0.0.2:10911", "10.0.0.3:10911">>
HaAddrPool == <<"10.0.0.1:10912", "10.0.0.2:10912", "10.0.0.3:10912">>
TopicPool == <<"T", "rmq_sys_SYNC_BROKER_MEMBER_broker-a", "U">>
ZonePool == <<"zone-1", "zone-2">>
FilterServerPool == <<"fs-1", "fs-2">>

Clusters == {ClusterPool[i] : i \in 1..NumClusters}
BrokerNames == {BrokerNamePool[i] : i \in 1..NumBrokerNames}
BrokerIds == 0..MaxBrokerId
AddrIndexes == 1..NumAddrs
Addrs == {AddrPool[i] : i \in AddrIndexes}
Topics == {TopicPool[i] : i \in 1..NumTopics}
Times == 0..MaxNow

\* Option<T>
None == <<>>
Some(x) == <<x>>
IsSome(o) == Len(o) = 1
Unwrap(o) == o[1]

\* -------------------------------------------------------- map primitives
MapRemove(m, k) == [x \in DOMAIN m \ {k} |-> m[x]]
MapInsert(m, k, v) == [x \in DOMAIN m \cup {k} |-> IF x = k THEN v ELSE m[x]]
EmptyMap == <<>>
SetMin(S) == CHOOSE x \in S : \A y \in S : x <= y

\* ------------------------------------------------------------ value types
DataVersion(sv, ts, c) == [state_version |-> sv, timestamp |-> ts, counter |-> c]
DataVersion_default == DataVersion(0, 0, 0)

BrokerData_new(cluster, broker_name, broker_addrs, zone_name) ==
    [cluster |-> cluster, broker_name |-> broker_name, broker_addrs |-> broker_addrs,
     zone_name |-> zone_name, enable_acting_master |-> FALSE]

QueueData_new(broker_name, write_queue_nums, read_queue_nums, perm, topic_sys_flag) ==
    [broker_name |-> broker_name, write_queue_nums |-> write_queue_nums,
     read_queue_nums |-> read_queue_nums, perm |-> perm, topic_sys_flag |-> topic_sys_flag]

BrokerLiveInfo_new(last_update_timestamp, heartbeat_timeout_millis, data_version, ha_server_addr) ==
    [last_update_timestamp |-> last_update_timestamp,
     heartbeat_timeout_millis |-> heartbeat_timeout_millis,
     data_version |-> data_version, ha_server_addr |-> ha_server_addr]

BrokerAddrInfo_new(cluster_name, broker_addr) == <<cluster_name, broker_addr>>

RegisterBrokerResult_default == [ha_server_addr |-> "", master_addr |-> ""]

\* x & !mask on an unsigned word
RECURSIVE AndNot(_, _)
AndNot(x, mask) ==
    IF x = 0 THEN 0
    ELSE (IF mask % 2 = 1 THEN 0 ELSE x % 2) + 2 * AndNot(x \div 2, mask \div 2)

\* x & mask on an unsigned word
RECURSIVE BitAnd(_, _)
BitAnd(x, mask) ==
    IF x = 0 \/ mask = 0 THEN 0
    ELSE (x % 2) * (mask % 2) + 2 * BitAnd(x \div 2, mask \div 2)

\* PermName::is_writeable
is_writeable(perm) == BitAnd(perm, PERM_WRITE) = PERM_WRITE

\* ------------------------------------------------------------ the state
VARIABLES topic_queue_table, broker_addr_table, cluster_addr_table,
          broker_live_table, filter_server_table, topic_queue_mapping_info_table,
          namesrv_config, outcome, ever_live,
          rw_lock, pending

tables == <<topic_queue_table, broker_addr_table, cluster_addr_table,
            broker_live_table, filter_server_table, topic_queue_mapping_info_table>>
vars == <<topic_queue_table, broker_addr_table, cluster_addr_table,
          broker_live_table, filter_server_table, topic_queue_mapping_info_table,
          namesrv_config, outcome, ever_live, rw_lock, pending>>

\* the read-write lock around the manager and the calls in progress
threads == <<rw_lock, pending>>

\* the RouteInfoManager value
Rim ==
    [topic_queue_table |-> topic_queue_table,
     broker_addr_table |-> broker_addr_table,
     cluster_addr_table |-> cluster_addr_table,
     broker_live_table |-> broker_live_table,
     filter_server_table |-> filter_server_table,
     topic_queue_mapping_info_table |-> topic_queue_mapping_info_table,
     namesrv_config |-> namesrv_config]

NamesrvConfig_default ==
    [delete_topic_with_broker_registration |-> FALSE,
     support_acting_master |-> FALSE,
     notify_min_broker_id_changed |-> FALSE]

RouteInfoManager_new_with_config(config) ==
    [topic_queue_table |-> EmptyMap,
     broker_addr_table |-> EmptyMap,
     cluster_addr_table |-> EmptyMap,
     broker_live_table |-> EmptyMap,
     filter_server_table |-> EmptyMap,
     topic_queue_mapping_info_table |-> EmptyMap,
     namesrv_config |-> config]

\* ------------------------------------------------------ change detection
query_broker_topic_config(rim, cluster_name, broker_addr) ==
    LET info == BrokerAddrInfo_new(cluster_name, broker_addr)
    IN  IF info \in DOMAIN rim.broker_live_table
        THEN Some(rim.broker_live_table[info].data_version)
        ELSE None

is_broker_topic_config_changed(rim, cluster_name, broker_addr, data_version) ==
    LET option == query_broker_topic_config(rim, cluster_name, broker_addr)
    IN  IF IsSome(option) /\ ~(Unwrap(option) = data_version) THEN TRUE ELSE FALSE

is_topic_config_changed(rim, cluster_name, broker_addr, data_version, broker_name, topic) ==
    IF is_broker_topic_config_changed(rim, cluster_name, broker_addr, data_version)
    THEN TRUE
    ELSE IF topic \in DOMAIN rim.topic_queue_table
         THEN IF DOMAIN rim.topic_queue_table[topic] = {}
              THEN TRUE
              ELSE ~(broker_name \in DOMAIN rim.topic_queue_table[topic])
         ELSE TRUE

topic_set_of_broker_name(rim, broker_name) ==
    {key \in DOMAIN rim.topic_queue_table : broker_name \in DOMAIN rim.topic_queue_table[key]}

\* mutant: the QueueData is filed under the topic name
queue_data_key_topic_name(broker_name, topic_config) == topic_config.topic_name

\* the key under which create_and_update_queue_data files the QueueData
queue_data_key(broker_name, topic_config) == broker_name

create_and_update_queue_data(topic_queue_table_, broker_name, topic_config) ==
    LET queue_data == QueueData_new(broker_name, topic_config.write_queue_nums,
                                    topic_config.read_queue_nums, topic_config.perm,
                                    topic_config.topic_sys_flag)
        key == queue_data_key(broker_name, topic_config)
        topic == topic_config.topic_name
    IN  IF topic \in DOMAIN topic_queue_table_
        THEN LET queue_data_map_inner == topic_queue_table_[topic]
             IN  IF ~(key \in DOMAIN queue_data_map_inner)
                 THEN MapInsert(topic_queue_table_, topic,
                                MapInsert(queue_data_map_inner, key, queue_data))
                 ELSE IF queue_data_map_inner[key] # queue_data
                      THEN MapInsert(topic_queue_table_, topic,
                                     MapInsert(queue_data_map_inner, key, queue_data))
                      ELSE topic_queue_table_
        ELSE MapInsert(topic_queue_table_, topic, MapInsert(EmptyMap, key, queue_data))

\* --------------------------------------------- register_broker, by steps
cluster_admission(cluster_addr_table_, cluster_name, broker_name) ==
    LET t == IF ~(cluster_name \in DOMAIN cluster_addr_table_)
             THEN MapInsert(cluster_addr_table_, cluster_name, {})
             ELSE cluster_addr_table_
    IN  MapInsert(t, cluster_name, t[cluster_name] \cup {broker_name})

is_old_version_broker(enable_acting_master) ==
    IF IsSome(enable_acting_master) THEN Unwrap(enable_acting_master) ELSE FALSE

broker_row_upsert(broker_addr_table_, a) ==
    IF a.broker_name \in DOMAIN broker_addr_table_
    THEN [broker_addr_table_ EXCEPT
            ![a.broker_name].enable_acting_master = is_old_version_broker(a.enable_acting_master),
            ![a.broker_name].zone_name = a.zone_name]
    ELSE MapInsert(broker_addr_table_, a.broker_name,
                   BrokerData_new(a.cluster_name, a.broker_name, EmptyMap, a.zone_name))

prev_min_broker_id(broker_data) ==
    IF DOMAIN broker_data.broker_addrs # {}
    THEN SetMin(DOMAIN broker_data.broker_addrs)
    ELSE 0

is_min_broker_id_changed(broker_data, broker_id) ==
    broker_id < prev_min_broker_id(broker_data)

\* BrokerData::remove_broker_by_addr
remove_broker_by_addr(broker_data, broker_id, broker_addr) ==
    [broker_data EXCEPT !.broker_addrs =
        [k \in {x \in DOMAIN broker_data.broker_addrs :
                    broker_data.broker_addrs[x] # broker_addr \/ x = broker_id}
            |-> broker_data.broker_addrs[k]]]

\* mutant: the slave-to-master switch is left out
swap_cleanup_skipped(broker_data, broker_id, broker_addr) == broker_data

\* the slave-to-master switch of register_broker
swap_cleanup(broker_data, broker_id, broker_addr) ==
    remove_broker_by_addr(broker_data, broker_id, broker_addr)

\* mutant: the state versions are compared the other way round
stale_check_reversed(broker_data, broker_live_table_, a) ==
    IF a.broker_id \in DOMAIN broker_data.broker_addrs
       /\ broker_data.broker_addrs[a.broker_id] # a.broker_addr
       /\ BrokerAddrInfo_new(a.cluster_name, broker_data.broker_addrs[a.broker_id])
             \in DOMAIN broker_live_table_
    THEN LET val == broker_live_table_[
                       BrokerAddrInfo_new(a.cluster_name, broker_data.broker_addrs[a.broker_id])]
             old_state_version == val.data_version.state_version
         IN  IF ~IsSome(a.wrapper.data_version)
             THEN "panic"
             ELSE IF old_state_version < Unwrap(a.wrapper.data_version).state_version
                  THEN "stale"
                  ELSE "pass"
    ELSE "pass"

\* mutant: an equal state version is turned away as well
stale_check_rejecting_equal(broker_data, broker_live_table_, a) ==
    IF a.broker_id \in DOMAIN broker_data.broker_addrs
       /\ broker_data.broker_addrs[a.broker_id] # a.broker_addr
       /\ BrokerAddrInfo_new(a.cluster_name, broker_data.broker_addrs[a.broker_id])
             \in DOMAIN broker_live_table_
    THEN LET val == broker_live_table_[
                       BrokerAddrInfo_new(a.cluster_name, broker_data.broker_addrs[a.broker_id])]
             old_state_version == val.data_version.state_version
         IN  IF ~IsSome(a.wrapper.data_version)
             THEN "panic"
             ELSE IF old_state_version >= Unwrap(a.wrapper.data_version).state_version
                  THEN "stale"
                  ELSE "pass"
    ELSE "pass"

\* "pass", "stale" or "panic" (unwrap of an absent data version)
stale_check(broker_data, broker_live_table_, a) ==
    IF a.broker_id \in DOMAIN broker_data.broker_addrs
       /\ broker_data.broker_addrs[a.broker_id] # a.broker_addr
       /\ BrokerAddrInfo_new(a.cluster_name, broker_data.broker_addrs[a.broker_id])
             \in DOMAIN broker_live_table_
    THEN LET val == broker_live_table_[
                       BrokerAddrInfo_new(a.cluster_name, broker_data.broker_addrs[a.broker_id])]
             old_state_version == val.data_version.state_version
         IN  IF ~IsSome(a.wrapper.data_version)
             THEN "panic"
             ELSE IF old_state_version > Unwrap(a.wrapper.data_version).state_version
                  THEN "stale"
                  ELSE "pass"
    ELSE "pass"

\* mutant: every non-empty topic table counts as a single topic
topic_config_table_size_capped(wrapper) ==
    IF IsSome(wrapper.topic_config_table) /\ DOMAIN Unwrap(wrapper.topic_config_table) # {}
    THEN 1
    ELSE 0

topic_config_table_size(wrapper) ==
    IF IsSome(wrapper.topic_config_table)
    THEN Cardinality(DOMAIN Unwrap(wrapper.topic_config_table))
    ELSE 0

\* mutant: the guard fires for a known broker id instead of an unknown one
single_topic_guard_known_id(broker_data, broker_id, size) ==
    (broker_id \in DOMAIN broker_data.broker_addrs) /\ size = 1

single_topic_guard(broker_data, broker_id, size) ==
    ~(broker_id \in DOMAIN broker_data.broker_addrs) /\ size = 1

\* mutant: every slave of a new-version broker counts as the prime slave
is_prime_slave_any_slave(enable_acting_master, broker_id, broker_data) ==
    /\ ~is_old_version_broker(enable_acting_master)
    /\ ~(MASTER_ID = broker_id)

is_prime_slave(enable_acting_master, broker_id, broker_data) ==
    /\ ~is_old_version_broker(enable_acting_master)
    /\ ~(MASTER_ID = broker_id)
    /\ broker_id = SetMin(DOMAIN broker_data.broker_addrs)

\* what a call leaves behind: the manager, the return site ("done" line 305,
\* "stale" line 160, "guard" line 177, "panic_data_version" the unwrap of lines
\* 154 and 227, "panic_todo" line 303) and the value returned
Ret(rim, ret, result) == [rim |-> rim, ret |-> ret, result |-> result]

\* topic deletion on registration: the loop over to_delete_topics
RECURSIVE delete_topics(_, _, _)
delete_topics(topic_queue_table_, to_delete_topics, broker_name) ==
    IF to_delete_topics = {} THEN topic_queue_table_
    ELSE LET to_delete_topic == CHOOSE t \in to_delete_topics : TRUE
             next == IF to_delete_topic \in DOMAIN topic_queue_table_
                     THEN LET queue_data == MapRemove(topic_queue_table_[to_delete_topic],
                                                      broker_name)
                          IN  IF DOMAIN queue_data = {}
                              THEN MapRemove(topic_queue_table_, to_delete_topic)
                              ELSE MapInsert(topic_queue_table_, to_delete_topic, queue_data)
                     ELSE topic_queue_table_
         IN  delete_topics(next, to_delete_topics \ {to_delete_topic}, broker_name)

\* mutant: the topics the broker no longer announces are deleted (old minus new)
delete_topic_step_old_minus_new(rim, a, tc_table) ==
    IF rim.namesrv_config.delete_topic_with_broker_registration
       /\ DOMAIN a.wrapper.topic_queue_mapping_info_map = {}
    THEN LET old_topic_set == topic_set_of_broker_name(rim, a.broker_name)
             new_topic_set == DOMAIN tc_table
             to_delete_topics == old_topic_set \ new_topic_set
         IN  [rim EXCEPT !.topic_queue_table = delete_topics(@, to_delete_topics, a.broker_name)]
    ELSE rim

delete_topic_step(rim, a, tc_table) ==
    IF rim.namesrv_config.delete_topic_with_broker_registration
       /\ DOMAIN a.wrapper.topic_queue_mapping_info_map = {}
    THEN LET old_topic_set == topic_set_of_broker_name(rim, a.broker_name)
             new_topic_set == DOMAIN tc_table
             to_delete_topics == new_topic_set \ old_topic_set
         IN  [rim EXCEPT !.topic_queue_table = delete_topics(@, to_delete_topics, a.broker_name)]
    ELSE rim

\* the copy of one TopicConfig that is stored: WRITE masked for a prime slave
masked_config(rim, a, topic_config, data_version, register_first, prime_slave, broker_data) ==
    IF (register_first
          \/ is_topic_config_changed(rim, a.cluster_name, a.broker_addr, data_version,
                                     a.broker_name, topic_config.topic_name))
       /\ prime_slave
       /\ broker_data.enable_acting_master
    THEN [topic_config EXCEPT !.perm = AndNot(@, PERM_WRITE)]
    ELSE topic_config

\* the loop over tc_table.values()
RECURSIVE apply_topic_configs(_, _, _, _, _, _, _, _)
apply_topic_configs(rim, a, tc_table, rest, data_version, register_first, prime_slave, broker_data) ==
    IF rest = {} THEN rim
    ELSE LET topic == CHOOSE t \in rest : TRUE
             config == masked_config(rim, a, tc_table[topic], data_version, register_first,
                                     prime_slave, broker_data)
             next == [rim EXCEPT !.topic_queue_table =
                         create_and_update_queue_data(@, a.broker_name, config)]
         IN  apply_topic_configs(next, a, tc_table, rest \ {topic}, data_version,
                                 register_first, prime_slave, broker_data)

\* the loop over topic_queue_mapping_info_map
RECURSIVE merge_mapping(_, _, _)
merge_mapping(table, info_map, rest) ==
    IF rest = {} THEN table
    ELSE LET topic == CHOOSE t \in rest : TRUE
             vtq_info == info_map[topic]
             t1 == IF ~(topic \in DOMAIN table) THEN MapInsert(table, topic, EmptyMap)
                   ELSE table
             t2 == MapInsert(t1, topic, MapInsert(t1[topic], Unwrap(vtq_info.bname), vtq_info))
         IN  merge_mapping(t2, info_map, rest \ {topic})

merge_mapping_step(rim, a, data_version, register_first) ==
    IF is_broker_topic_config_changed(rim, a.cluster_name, a.broker_addr, data_version)
       \/ register_first
    THEN [rim EXCEPT !.topic_queue_mapping_info_table =
             merge_mapping(@, a.wrapper.topic_queue_mapping_info_map,
                           DOMAIN a.wrapper.topic_queue_mapping_info_map)]
    ELSE rim

live_table_refresh(broker_live_table_, a) ==
    MapInsert(broker_live_table_, BrokerAddrInfo_new(a.cluster_name, a.broker_addr),
              BrokerLiveInfo_new(a.now, DEFAULT_BROKER_CHANNEL_EXPIRED_TIME,
                                 IF IsSome(a.wrapper.data_version)
                                 THEN Unwrap(a.wrapper.data_version)
                                 ELSE DataVersion_default,
                                 a.ha_server_addr))

\* mutant: the list is stored whether or not it is empty
filter_server_step_always_insert(filter_server_table_, a) ==
    MapInsert(filter_server_table_, BrokerAddrInfo_new(a.cluster_name, a.broker_addr),
              a.filter_server_list)

filter_server_step(filter_server_table_, a) ==
    IF a.filter_server_list = <<>>
    THEN MapRemove(filter_server_table_, BrokerAddrInfo_new(a.cluster_name, a.broker_addr))
    ELSE MapInsert(filter_server_table_, BrokerAddrInfo_new(a.cluster_name, a.broker_addr),
                   a.filter_server_list)

\* mutant: masterAddr is the master's broker address, not its HA address
result_assembly_master_broker_addr(rim, a, broker_data) ==
    IF MASTER_ID # a.broker_id
       /\ MASTER_ID \in DOMAIN broker_data.broker_addrs
       /\ BrokerAddrInfo_new(a.cluster_name, broker_data.broker_addrs[MASTER_ID])
             \in DOMAIN rim.broker_live_table
    THEN LET info == rim.broker_live_table[
                        BrokerAddrInfo_new(a.cluster_name, broker_data.broker_addrs[MASTER_ID])]
         IN  [ha_server_addr |-> info.ha_server_addr,
              master_addr |-> broker_data.broker_addrs[MASTER_ID]]
    ELSE RegisterBrokerResult_default

result_assembly(rim, a, broker_data) ==
    IF MASTER_ID # a.broker_id
       /\ MASTER_ID \in DOMAIN broker_data.broker_addrs
       /\ BrokerAddrInfo_new(a.cluster_name, broker_data.broker_addrs[MASTER_ID])
             \in DOMAIN rim.broker_live_table
    THEN LET info == rim.broker_live_table[
                        BrokerAddrInfo_new(a.cluster_name, broker_data.broker_addrs[MASTER_ID])]
         IN  [ha_server_addr |-> info.ha_server_addr, master_addr |-> info.ha_server_addr]
    ELSE RegisterBrokerResult_default

\* lines 265-305: live table, filter servers, result, notification
register_broker_finish(rim, a, broker_data, min_changed) ==
    LET rim1 == [rim EXCEPT !.broker_live_table = live_table_refresh(@, a),
                            !.filter_server_table = filter_server_step(@, a)]
        result == result_assembly(rim1, a, broker_data)
    IN  IF min_changed /\ rim.namesrv_config.notify_min_broker_id_changed
        THEN Ret(rim1, "panic_todo", None)
        ELSE Ret(rim1, "done", Some(result))

\* lines 180-263: record the address, classify the role, apply the topic configs
register_broker_accept(rim, a, register_first0, min_changed) ==
    LET bd2 == rim.broker_addr_table[a.broker_name]
        old_addr == IF a.broker_id \in DOMAIN bd2.broker_addrs
                    THEN Some(bd2.broker_addrs[a.broker_id]) ELSE None
        broker_data == [bd2 EXCEPT !.broker_addrs = MapInsert(@, a.broker_id, a.broker_addr)]
        register_first == register_first0 \/ ~IsSome(old_addr)
        is_master == MASTER_ID = a.broker_id
        prime_slave == is_prime_slave(a.enable_acting_master, a.broker_id, broker_data)
        rim3 == [rim EXCEPT !.broker_addr_table = MapInsert(@, a.broker_name, broker_data)]
    IN  IF (is_master \/ prime_slave) /\ IsSome(a.wrapper.topic_config_table)
        THEN LET tc_table == Unwrap(a.wrapper.topic_config_table)
                 rim4 == delete_topic_step(rim3, a, tc_table)
             IN  IF ~IsSome(a.wrapper.data_version)
                 THEN Ret(rim4, "panic_data_version", None)
                 ELSE LET data_version == Unwrap(a.wrapper.data_version)
                          rim5 == apply_topic_configs(rim4, a, tc_table, DOMAIN tc_table,
                                                      data_version, register_first,
                                                      prime_slave, broker_data)
                          rim6 == merge_mapping_step(rim5, a, data_version, register_first)
                      IN  register_broker_finish(rim6, a, broker_data, min_changed)
        ELSE register_broker_finish(rim3, a, broker_data, min_changed)

register_broker(rim, a) ==
    LET cat1 == cluster_admission(rim.cluster_addr_table, a.cluster_name, a.broker_name)
        register_first0 == ~(a.broker_name \in DOMAIN rim.broker_addr_table)
        bat1 == broker_row_upsert(rim.broker_addr_table, a)
        min_changed == is_min_broker_id_changed(bat1[a.broker_name], a.broker_id)
        bd2 == swap_cleanup(bat1[a.broker_name], a.broker_id, a.broker_addr)
        rim2 == [rim EXCEPT !.cluster_addr_table = cat1,
                            !.broker_addr_table = MapInsert(bat1, a.broker_name, bd2)]
        check == stale_check(bd2, rim.broker_live_table, a)
        end ==
            IF check = "panic" THEN Ret(rim2, "panic_data_version", None)
            ELSE IF check = "stale"
            THEN Ret([rim2 EXCEPT !.broker_live_table =
                         MapRemove(@, BrokerAddrInfo_new(a.cluster_name, a.broker_addr))],
                     "stale", Some(RegisterBrokerResult_default))
            ELSE IF single_topic_guard(bd2, a.broker_id, topic_config_table_size(a.wrapper))
            THEN Ret(rim2, "guard", None)
            ELSE register_broker_accept(rim2, a, register_first0, min_changed)
    IN  [rim |-> end.rim, ret |-> end.ret, result |-> end.result,
         is_min_broker_id_changed |-> min_changed]

\* ------------------------------------------------ pickup_topic_route_data
\* the filter servers of the addresses of the picked broker rows, keyed by address
pickup_filter_server_table(rim, broker_datas) ==
    IF DOMAIN rim.filter_server_table = {} THEN EmptyMap
    ELSE LET hits == {<<bd, id>> \in
                        UNION {{<<b, i>> : i \in DOMAIN b.broker_addrs} : b \in broker_datas} :
                        BrokerAddrInfo_new(bd.cluster, bd.broker_addrs[id])
                            \in DOMAIN rim.filter_server_table}
             hit_addrs == {h[1].broker_addrs[h[2]] : h \in hits}
         IN  [broker_addr \in hit_addrs |->
                LET h == CHOOSE x \in hits : x[1].broker_addrs[x[2]] = broker_addr
                IN  rim.filter_server_table[BrokerAddrInfo_new(h[1].cluster, broker_addr)]]

\* perm as i8: the low byte
as_i8(perm) == perm % 256

\* mutant: the smallest id is promoted whatever the perm of the QueueData
promote_acting_master_any_perm(broker_data, queue_datas) ==
    IF DOMAIN broker_data.broker_addrs = {}
       \/ MASTER_ID \in DOMAIN broker_data.broker_addrs
       \/ ~broker_data.enable_acting_master
    THEN broker_data
    ELSE LET min_broker_id == SetMin(DOMAIN broker_data.broker_addrs)
             acting_master_addr == broker_data.broker_addrs[min_broker_id]
         IN  [broker_data EXCEPT !.broker_addrs =
                 MapInsert(MapRemove(@, min_broker_id), MASTER_ID, acting_master_addr)]

\* the rewrite of one cloned BrokerData by the acting-master loop
promote_acting_master(broker_data, queue_datas) ==
    IF DOMAIN broker_data.broker_addrs = {}
       \/ MASTER_ID \in DOMAIN broker_data.broker_addrs
       \/ ~broker_data.enable_acting_master
    THEN broker_data
    ELSE LET matching == {qd \in queue_datas : qd.broker_name = broker_data.broker_name}
         IN  IF matching = {} THEN broker_data
             ELSE LET queue_data == CHOOSE qd \in matching : TRUE
                  IN  IF ~is_writeable(as_i8(queue_data.perm))
                      THEN LET min_broker_id == SetMin(DOMAIN broker_data.broker_addrs)
                               acting_master_addr == broker_data.broker_addrs[min_broker_id]
                           IN  [broker_data EXCEPT !.broker_addrs =
                                   MapInsert(MapRemove(@, min_broker_id), MASTER_ID,
                                             acting_master_addr)]
                      ELSE broker_data

\* topic.starts_with(SYNC_BROKER_MEMBER_GROUP_PREFIX), over the topics of the pool
SyncBrokerMemberGroupTopics == {TopicPool[2]}
starts_with_sync_prefix(topic) == topic \in SyncBrokerMemberGroupTopics

\* mutant: the static-topic mappings are left out of the route
topic_queue_mapping_by_broker_empty(rim, topic) == Some(EmptyMap)

\* topic_queue_mapping_info_table.get(topic).cloned().unwrap_or_default()
topic_queue_mapping_by_broker(rim, topic) ==
    Some(IF topic \in DOMAIN rim.topic_queue_mapping_info_table
         THEN rim.topic_queue_mapping_info_table[topic]
         ELSE EmptyMap)

\* lines 331-335: topic_queue_table.get(topic), an Option of the row
topic_queue_table_get(rim, topic) ==
    IF topic \in DOMAIN rim.topic_queue_table THEN Some(rim.topic_queue_table[topic]) ELSE None

\* lines 332-428 over the row read at line 331
pickup_topic_route_data_over(rim, topic, row) ==
    LET found_queue_data == IsSome(row)
        queue_data_map == IF found_queue_data THEN Unwrap(row) ELSE EmptyMap
        queue_datas == {queue_data_map[n] : n \in DOMAIN queue_data_map}
        broker_name_set == DOMAIN queue_data_map
        broker_datas == {rim.broker_addr_table[n] :
                            n \in broker_name_set \cap DOMAIN rim.broker_addr_table}
        found_broker_data == broker_datas # {}
        topic_route_data ==
            [order_topic_conf |-> None,
             broker_datas |-> broker_datas,
             queue_datas |-> queue_datas,
             filter_server_table |-> pickup_filter_server_table(rim, broker_datas),
             topic_queue_mapping_by_broker |-> topic_queue_mapping_by_broker(rim, topic)]
        need_acting_master ==
            \E bd \in broker_datas :
                DOMAIN bd.broker_addrs # {} /\ ~(MASTER_ID \in DOMAIN bd.broker_addrs)
    IN  IF found_broker_data /\ found_queue_data
        THEN IF ~rim.namesrv_config.support_acting_master THEN Some(topic_route_data)
             ELSE IF starts_with_sync_prefix(topic) THEN Some(topic_route_data)
             ELSE IF broker_datas = {} \/ queue_datas = {} THEN Some(topic_route_data)
             ELSE IF ~need_acting_master THEN Some(topic_route_data)
             ELSE Some([topic_route_data EXCEPT !.broker_datas =
                           {promote_acting_master(bd, queue_datas) : bd \in broker_datas}])
        ELSE None

pickup_topic_route_data(rim, topic) ==
    pickup_topic_route_data_over(rim, topic, topic_queue_table_get(rim, topic))

\* ------------------------------------------------------------ the inputs
Perms == {PERM_READ, PERM_READ + PERM_WRITE + PERM_INHERIT}

TopicConfig(topic_name, perm) ==
    [topic_name |-> topic_name, perm |-> perm, write_queue_nums |-> 16,
     read_queue_nums |-> 16, topic_sys_flag |-> 0]

TopicConfigTablesOver(topics, perms) ==
    UNION {{[t \in S |-> TopicConfig(t, f[t])] : f \in [S -> perms]} : S \in SUBSET topics}

TopicConfigTables == TopicConfigTablesOver(Topics, Perms)

DataVersions ==
    {DataVersion(sv, ts, c) :
        sv \in 0..MaxStateVersion, ts \in 0..MaxTimestamp, c \in 0..MaxCounter}

TopicQueueMappingInfo(bname) == [bname |-> Some(bname)]

MappingInfoMaps ==
    UNION {[S -> {TopicQueueMappingInfo(n) : n \in BrokerNames}] : S \in SUBSET {TopicPool[1]}}

FilterServerLists == {<<>>} \cup {<<FilterServerPool[i]>> : i \in 1..NumFilterServers}

Zones == {None} \cup {Some(ZonePool[i]) : i \in 1..NumZones}

Wrappers(versions, tc_tables, mappings) ==
    [data_version : versions, topic_config_table : tc_tables,
     topic_queue_mapping_info_map : mappings]

\* the calls of register_broker: a broker announces its own HA address
RegisterArgs(clusters, zones, flags, wrappers, filters) ==
    {[cluster_name |-> c, broker_addr |-> AddrPool[i], broker_name |-> n, broker_id |-> id,
      ha_server_addr |-> HaAddrPool[i], zone_name |-> z, enable_acting_master |-> e,
      wrapper |-> w, filter_server_list |-> fl, now |-> now] :
        c \in clusters, i \in AddrIndexes, n \in BrokerNames, id \in BrokerIds, z \in zones,
        e \in flags, w \in wrappers, fl \in filters, now \in Times}

\* registrations inside one cluster, without filter servers or static topics
CoreArgs ==
    RegisterArgs({ClusterPool[1]}, {None}, {None, Some(TRUE)},
                 Wrappers({None} \cup {Some(v) : v \in DataVersions},
                          {None} \cup {Some(t) : t \in TopicConfigTables},
                          {EmptyMap}),
                 {<<>>})

\* ------------------------------------------------------------ the actions
Writers == {"w1", "w2"}
Readers == {"r1"}

\* no call in progress, the lock free
Idle ==
    /\ rw_lock = [writer |-> None, readers |-> {}]
    /\ pending = [t \in Writers \cup Readers |-> None]

Init ==
    /\ topic_queue_table = EmptyMap
    /\ broker_addr_table = EmptyMap
    /\ cluster_addr_table = EmptyMap
    /\ broker_live_table = EmptyMap
    /\ filter_server_table = EmptyMap
    /\ topic_queue_mapping_info_table = EmptyMap
    /\ namesrv_config = NamesrvConfig_default
    /\ outcome = [op |-> "new", call |-> None, ret |-> "new", result |-> None,
                  is_min_broker_id_changed |-> FALSE]
    /\ ever_live = {}
    /\ Idle

\* the identity arguments of the last call, kept with its outcome
CallOf(a) ==
    [cluster_name |-> a.cluster_name, broker_name |-> a.broker_name,
     broker_id |-> a.broker_id, broker_addr |-> a.broker_addr]

RegisterBroker(a) ==
    \E r \in {register_broker(Rim, a)} :
        /\ topic_queue_table' = r.rim.topic_queue_table
        /\ broker_addr_table' = r.rim.broker_addr_table
        /\ cluster_addr_table' = r.rim.cluster_addr_table
        /\ broker_live_table' = r.rim.broker_live_table
        /\ filter_server_table' = r.rim.filter_server_table
        /\ topic_queue_mapping_info_table' = r.rim.topic_queue_mapping_info_table
        /\ namesrv_config' = r.rim.namesrv_config
        /\ outcome' = [op |-> "register_broker", call |-> CallOf(a), ret |-> r.ret,
                       result |-> r.result,
                       is_min_broker_id_changed |-> r.is_min_broker_id_changed]
        /\ ever_live' = ever_live \cup DOMAIN r.rim.broker_live_table
        /\ UNCHANGED threads

\* mutant: the promotion rewrites the rows of the manager instead of the clones
PickupTopicRouteData_rewriting_rows(topic) ==
    \E route \in {pickup_topic_route_data(Rim, topic)} :
        /\ outcome' = [op |-> "pickup_topic_route_data", call |-> [topic |-> topic],
                       ret |-> "done", result |-> route,
                       is_min_broker_id_changed |-> FALSE]
        /\ broker_addr_table' =
              IF IsSome(route)
              THEN [n \in DOMAIN broker_addr_table |->
                      IF \E bd \in Unwrap(route).broker_datas : bd.broker_name = n
                      THEN CHOOSE bd \in Unwrap(route).broker_datas : bd.broker_name = n
                      ELSE broker_addr_table[n]]
              ELSE broker_addr_table
        /\ UNCHANGED <<topic_queue_table, cluster_addr_table, broker_live_table,
                       filter_server_table, topic_queue_mapping_info_table,
                       namesrv_config, ever_live, threads>>

PickupTopicRouteData(topic) ==
    /\ outcome' = [op |-> "pickup_topic_route_data", call |-> [topic |-> topic],
                   ret |-> "done", result |-> pickup_topic_route_data(Rim, topic),
                   is_min_broker_id_changed |-> FALSE]
    /\ UNCHANGED <<tables, namesrv_config, ever_live, threads>>

\* registrations of one group under several cluster names
ClusterArgs ==
    RegisterArgs(Clusters, {None}, {None},
                 Wrappers({Some(DataVersion_default)},
                          {None} \cup {Some(t) : t \in TopicConfigTables},
                          {EmptyMap}),
                 {<<>>})

\* registrations with zone names and filter servers
FilterArgs ==
    RegisterArgs({ClusterPool[1]}, Zones, {None},
                 Wrappers({Some(v) : v \in DataVersions},
                          {None} \cup {Some(t) : t \in TopicConfigTablesOver({TopicPool[1]},
                                                                             {PERM_READ})},
                          {EmptyMap}),
                 FilterServerLists)

\* the configurations a manager is built with
NamesrvConfigs ==
    {[NamesrvConfig_default EXCEPT !.support_acting_master = s,
                                   !.notify_min_broker_id_changed = n] :
        s \in BOOLEAN, n \in BOOLEAN}

\* RouteInfoManager::new_with_config over NamesrvConfigs
InitConfigured ==
    /\ \E config \in NamesrvConfigs :
          LET rim == RouteInfoManager_new_with_config(config)
          IN  /\ topic_queue_table = rim.topic_queue_table
              /\ broker_addr_table = rim.broker_addr_table
              /\ cluster_addr_table = rim.cluster_addr_table
              /\ broker_live_table = rim.broker_live_table
              /\ filter_server_table = rim.filter_server_table
              /\ topic_queue_mapping_info_table = rim.topic_queue_mapping_info_table
              /\ namesrv_config = rim.namesrv_config
    /\ outcome = [op |-> "new", call |-> None, ret |-> "new", result |-> None,
                  is_min_broker_id_changed |-> FALSE]
    /\ ever_live = {}
    /\ Idle

\* the topic tables of the acting-master registrations: the plain topic read-only or
\* writeable, the sync-broker-member-group topic read-only
ActingTopicConfigTables ==
    {t \in TopicConfigTables : TopicPool[2] \in DOMAIN t => t[TopicPool[2]].perm = PERM_READ}

\* masters and slaves of one group with the enableActingMaster flag and static
\* topics; a second slave id is added to the slaves
ActingArgs ==
    LET base == RegisterArgs({ClusterPool[1]}, {None}, {None, Some(TRUE)},
                             Wrappers({Some(DataVersion_default)},
                                      {None} \cup {Some(t) : t \in ActingTopicConfigTables},
                                      MappingInfoMaps),
                             {<<>>})
    IN  base \cup {[a EXCEPT !.broker_id = MaxBrokerId + 1] :
                      a \in {b \in base : b.broker_id = MaxBrokerId}}

\* ------------------------------------------- the calls under the lock
\* lines 100-143 of register_broker: cluster admission, row upsert, swap cleanup
register_broker_admit(rim, a) ==
    LET bat1 == broker_row_upsert(rim.broker_addr_table, a)
    IN  [rim EXCEPT !.cluster_addr_table = cluster_admission(@, a.cluster_name, a.broker_name),
                    !.broker_addr_table =
                        MapInsert(bat1, a.broker_name,
                                  swap_cleanup(bat1[a.broker_name], a.broker_id, a.broker_addr))]

\* mutant: a reader does not wait for the writer
read_lock_free_ignoring_writer(rw_lock_) == TRUE

\* the read lock is granted while no writer holds the lock
read_lock_free(rw_lock_) == rw_lock_.writer = None

\* the write lock is granted while nobody holds the lock
write_lock_free(rw_lock_) == rw_lock_.writer = None /\ rw_lock_.readers = {}

\* a thread enters register_broker with the write lock
RegisterBrokerLock(t, a) ==
    /\ pending[t] = None
    /\ write_lock_free(rw_lock)
    /\ rw_lock' = [rw_lock EXCEPT !.writer = Some(t)]
    /\ pending' = [pending EXCEPT ![t] = Some([op |-> "register_broker", pc |-> "admit",
                                               a |-> a, before |-> Rim])]
    /\ UNCHANGED <<tables, namesrv_config, outcome, ever_live>>

\* the call has updated ClusterAddrTable and the row of BrokerAddrTable
RegisterBrokerAdmit(t) ==
    /\ IsSome(pending[t])
    /\ Unwrap(pending[t]).op = "register_broker"
    /\ Unwrap(pending[t]).pc = "admit"
    /\ \E rim2 \in {register_broker_admit(Rim, Unwrap(pending[t]).a)} :
          /\ cluster_addr_table' = rim2.cluster_addr_table
          /\ broker_addr_table' = rim2.broker_addr_table
    /\ pending' = [pending EXCEPT ![t] = Some([Unwrap(pending[t]) EXCEPT !.pc = "complete"])]
    /\ UNCHANGED <<topic_queue_table, broker_live_table, filter_server_table,
                   topic_queue_mapping_info_table, namesrv_config, outcome, ever_live,
                   rw_lock>>

\* the call runs to its end and gives the lock back
RegisterBrokerComplete(t) ==
    /\ IsSome(pending[t])
    /\ Unwrap(pending[t]).op = "register_broker"
    /\ Unwrap(pending[t]).pc = "complete"
    /\ \E r \in {register_broker(Unwrap(pending[t]).before, Unwrap(pending[t]).a)} :
          /\ topic_queue_table' = r.rim.topic_queue_table
          /\ broker_addr_table' = r.rim.broker_addr_table
          /\ cluster_addr_table' = r.rim.cluster_addr_table
          /\ broker_live_table' = r.rim.broker_live_table
          /\ filter_server_table' = r.rim.filter_server_table
          /\ topic_queue_mapping_info_table' = r.rim.topic_queue_mapping_info_table
          /\ outcome' = [op |-> "register_broker", call |-> CallOf(Unwrap(pending[t]).a),
                         ret |-> r.ret, result |-> r.result,
                         is_min_broker_id_changed |-> r.is_min_broker_id_changed]
          /\ ever_live' = ever_live \cup DOMAIN r.rim.broker_live_table
    /\ rw_lock' = [rw_lock EXCEPT !.writer = None]
    /\ pending' = [pending EXCEPT ![t] = None]
    /\ UNCHANGED namesrv_config

\* a thread enters pickup_topic_route_data with the read lock
PickupLock(t, topic) ==
    /\ pending[t] = None
    /\ read_lock_free(rw_lock)
    /\ rw_lock' = [rw_lock EXCEPT !.readers = @ \cup {t}]
    /\ pending' = [pending EXCEPT ![t] = Some([op |-> "pickup_topic_route_data",
                                               pc |-> "queue_data", topic |-> topic,
                                               row |-> None])]
    /\ UNCHANGED <<tables, namesrv_config, outcome, ever_live>>

\* line 331: the row of TopicQueueTable is read
PickupQueueData(t) ==
    /\ IsSome(pending[t])
    /\ Unwrap(pending[t]).op = "pickup_topic_route_data"
    /\ Unwrap(pending[t]).pc = "queue_data"
    /\ pending' = [pending EXCEPT ![t] =
          Some([Unwrap(pending[t]) EXCEPT
                  !.pc = "broker_data",
                  !.row = topic_queue_table_get(Rim, Unwrap(pending[t]).topic)])]
    /\ UNCHANGED <<tables, namesrv_config, outcome, ever_live, rw_lock>>

\* lines 337-428: the other tables are read, the route is returned, the lock given back
PickupBrokerData(t) ==
    /\ IsSome(pending[t])
    /\ Unwrap(pending[t]).op = "pickup_topic_route_data"
    /\ Unwrap(pending[t]).pc = "broker_data"
    /\ outcome' = [op |-> "pickup_topic_route_data",
                   call |-> [topic |-> Unwrap(pending[t]).topic], ret |-> "done",
                   result |-> pickup_topic_route_data_over(Rim, Unwrap(pending[t]).topic,
                                                           Unwrap(pending[t]).row),
                   is_min_broker_id_changed |-> FALSE]
    /\ rw_lock' = [rw_lock EXCEPT !.readers = @ \ {t}]
    /\ pending' = [pending EXCEPT ![t] = None]
    /\ UNCHANGED <<tables, namesrv_config, ever_live>>

\* the registrations of the concurrent calls: masters and slaves of one group
LockedArgs ==
    RegisterArgs({ClusterPool[1]}, {None}, {None},
                 Wrappers({Some(DataVersion_default)},
                          {None} \cup {Some(t) : t \in TopicConfigTablesOver({TopicPool[1]},
                                                                             {PERM_READ})},
                          {EmptyMap}),
                 {<<>>})

RegisterLocked ==
    \E t \in Writers :
        \/ \E a \in LockedArgs : RegisterBrokerLock(t, a)
        \/ RegisterBrokerAdmit(t)
        \/ RegisterBrokerComplete(t)
PickupLocked ==
    \E t \in Readers :
        \/ \E topic \in Topics : PickupLock(t, topic)
        \/ PickupQueueData(t)
        \/ PickupBrokerData(t)

\* data versions that differ in every field
StampedDataVersions ==
    {DataVersion(sv, ts, c) :
        sv \in 0..MaxStateVersion, ts \in 0..MaxVersionStamp, c \in 0..MaxVersionStamp}

\* registrations that compete for the ids of one group with stamped data versions
VersionArgs ==
    RegisterArgs({ClusterPool[1]}, {None}, {None},
                 Wrappers({None} \cup {Some(v) : v \in StampedDataVersions},
                          {None, Some(EmptyMap)},
                          {EmptyMap}),
                 {<<>>})

\* the configurations with and without topic deletion on registration
DeleteConfigs ==
    {[NamesrvConfig_default EXCEPT !.delete_topic_with_broker_registration = d] :
        d \in BOOLEAN}

\* RouteInfoManager::new_with_config over DeleteConfigs
InitDelete ==
    /\ \E config \in DeleteConfigs :
          LET rim == RouteInfoManager_new_with_config(config)
          IN  /\ topic_queue_table = rim.topic_queue_table
              /\ broker_addr_table = rim.broker_addr_table
              /\ cluster_addr_table = rim.cluster_addr_table
              /\ broker_live_table = rim.broker_live_table
              /\ filter_server_table = rim.filter_server_table
              /\ topic_queue_mapping_info_table = rim.topic_queue_mapping_info_table
              /\ namesrv_config = rim.namesrv_config
    /\ outcome = [op |-> "new", call |-> None, ret |-> "new", result |-> None,
                  is_min_broker_id_changed |-> FALSE]
    /\ ever_live = {}
    /\ Idle

\* registrations of two groups that share topics: the first broker name at the
\* first address, a second broker name at the second address
DeleteArgs ==
    LET base == RegisterArgs({ClusterPool[1]}, {None}, {None},
                             Wrappers({None, Some(DataVersion_default)},
                                      {None} \cup {Some(t) : t \in TopicConfigTablesOver(
                                                       Topics,
                                                       {PERM_READ + PERM_WRITE + PERM_INHERIT})},
                                      MappingInfoMaps),
                             {<<>>})
    IN  {a \in base : a.broker_addr = AddrPool[1]}
        \cup {[a EXCEPT !.broker_name = BrokerNamePool[NumBrokerNames + 1]] :
                 a \in {b \in base : b.broker_addr = AddrPool[2]}}

RegisterCore == \E a \in CoreArgs : RegisterBroker(a)
RegisterDelete == \E a \in DeleteArgs : RegisterBroker(a)
RegisterVersions == \E a \in VersionArgs : RegisterBroker(a)
RegisterActing == \E a \in ActingArgs : RegisterBroker(a)
RegisterClusters == \E a \in ClusterArgs : RegisterBroker(a)
RegisterFilters == \E a \in FilterArgs : RegisterBroker(a)
Pickup == \E topic \in Topics : PickupTopicRouteData(topic)

Next == RegisterCore \/ Pickup
NextClusters == RegisterClusters \/ Pickup
NextFilters == RegisterFilters \/ Pickup
NextActing == RegisterActing \/ Pickup
NextLocked == RegisterLocked \/ PickupLocked
NextVersions == RegisterVersions \/ Pickup
NextDelete == RegisterDelete \/ Pickup

Spec == Init /\ [][Next]_vars
SpecClusters == Init /\ [][NextClusters]_vars
SpecFilters == Init /\ [][NextFilters]_vars
SpecActing == InitConfigured /\ [][NextActing]_vars
SpecLocked == Init /\ [][NextLocked]_vars
SpecVersions == Init /\ [][NextVersions]_vars
SpecDelete == InitDelete /\ [][NextDelete]_vars

\* ================================================================ claims

\* C1: every brokerName that is a member of some ClusterAddrTable[clusterName]
\* has a row in BrokerAddrTable whose cluster field equals that clusterName.
C1_ClusterMembersHaveMatchingRow ==
    \A c \in DOMAIN cluster_addr_table :
        \A n \in cluster_addr_table[c] :
            n \in DOMAIN broker_addr_table /\ broker_addr_table[n].cluster = c

\* C2: inside one BrokerData.brokerAddrs an address occurs under at most one
\* brokerId, also after a master/slave swap and after the early returns.
C2_AddrUnderOneBrokerId ==
    \A n \in DOMAIN broker_addr_table :
        \A i, j \in DOMAIN broker_addr_table[n].broker_addrs :
            broker_addr_table[n].broker_addrs[i] = broker_addr_table[n].broker_addrs[j]
                => i = j

\* C2 witness: a registration under id 0 lowered the minimum id of the group
\* and left its address as the only one, so the address moved from a slave id.
C2_Witness ==
    /\ outcome.op = "register_broker"
    /\ outcome.ret = "done"
    /\ outcome.call.broker_id = MASTER_ID
    /\ outcome.is_min_broker_id_changed
    /\ LET bd == broker_addr_table[outcome.call.broker_name]
       IN  /\ DOMAIN bd.broker_addrs = {MASTER_ID}
           /\ bd.broker_addrs[MASTER_ID] = outcome.call.broker_addr

\* C3: for every (topic, brokerName) pair of TopicQueueTable, brokerName has a
\* row in BrokerAddrTable.
C3_TopicBrokersHaveRow ==
    \A t \in DOMAIN topic_queue_table :
        \A n \in DOMAIN topic_queue_table[t] : n \in DOMAIN broker_addr_table

\* C3 witness: a registration has stored the QueueData of two topics.
C3_Witness ==
    /\ outcome.op = "register_broker"
    /\ outcome.ret = "done"
    /\ DOMAIN topic_queue_table = Topics
    /\ \A t \in Topics : outcome.call.broker_name \in DOMAIN topic_queue_table[t]

\* C4: every address of a BrokerAddrTable row has, or had earlier, a live entry
\* keyed by (the row's cluster, the address).
C4_AddrsHaveOrHadLiveEntry ==
    \A n \in DOMAIN broker_addr_table :
        \A i \in DOMAIN broker_addr_table[n].broker_addrs :
            BrokerAddrInfo_new(broker_addr_table[n].cluster,
                               broker_addr_table[n].broker_addrs[i]) \in ever_live

TablesModTimestamp(rim) ==
    <<rim.topic_queue_table, rim.broker_addr_table, rim.cluster_addr_table,
      [k \in DOMAIN rim.broker_live_table |->
          [rim.broker_live_table[k] EXCEPT !.last_update_timestamp = 0]],
      rim.filter_server_table, rim.topic_queue_mapping_info_table>>

TablesOf(rim) ==
    <<rim.topic_queue_table, rim.broker_addr_table, rim.cluster_addr_table,
      rim.broker_live_table, rim.filter_server_table, rim.topic_queue_mapping_info_table>>

Returned(r) == r.ret \in {"done", "stale", "guard"}

\* C6: registering twice in a row with identical arguments leaves the six
\* tables as registering once does, lastUpdateTimestamp apart.
C6_RegisterTwiceIsRegisterOnce ==
    \A a \in CoreArgs :
        LET r1 == register_broker(Rim, a)
            r2 == register_broker(r1.rim, a)
        IN  Returned(r1) /\ Returned(r2)
               => TablesModTimestamp(r2.rim) = TablesModTimestamp(r1.rim)

EmptyRim == TablesOf(Rim) = TablesOf(RouteInfoManager_new_with_config(namesrv_config))

FirstMasterSingleTopic(a) ==
    /\ a.broker_id = MASTER_ID
    /\ IsSome(a.wrapper.topic_config_table)
    /\ Cardinality(DOMAIN Unwrap(a.wrapper.topic_config_table)) = 1

\* C7 as stated: from an empty manager a first master registration with exactly
\* one topic T is accepted, and pickup of T then returns one BrokerData with
\* brokerAddrs {0: brokerAddr}, one QueueData with the registered perm and an
\* empty filter-server map.
C7_FirstMasterSingleTopicAccepted ==
    EmptyRim =>
        \A a \in CoreArgs :
            FirstMasterSingleTopic(a) =>
                \A T \in DOMAIN Unwrap(a.wrapper.topic_config_table) :
                    LET r == register_broker(Rim, a)
                        p == pickup_topic_route_data(r.rim, T)
                    IN  /\ IsSome(r.result)
                        /\ IsSome(p)
                        /\ Cardinality(Unwrap(p).broker_datas) = 1
                        /\ \A bd \in Unwrap(p).broker_datas :
                              bd.broker_addrs = MapInsert(EmptyMap, MASTER_ID, a.broker_addr)
                        /\ Cardinality(Unwrap(p).queue_datas) = 1
                        /\ \A qd \in Unwrap(p).queue_datas :
                              qd.perm = Unwrap(a.wrapper.topic_config_table)[T].perm
                        /\ Unwrap(p).filter_server_table = EmptyMap

\* C7 as amended: from an empty manager a first master registration with
\* exactly one topic T is rejected by the single-topic guard (null result); no
\* address and no QueueData is stored and pickup of T returns null.
C7_FirstMasterSingleTopicRejected ==
    EmptyRim =>
        \A a \in CoreArgs :
            FirstMasterSingleTopic(a) =>
                \A T \in DOMAIN Unwrap(a.wrapper.topic_config_table) :
                    LET r == register_broker(Rim, a)
                    IN  /\ r.ret = "guard"
                        /\ r.result = None
                        /\ r.rim.broker_addr_table[a.broker_name].broker_addrs = EmptyMap
                        /\ r.rim.topic_queue_table = EmptyMap
                        /\ r.rim.broker_live_table = EmptyMap
                        /\ pickup_topic_route_data(r.rim, T) = None

\* C7 witness: the first call on the manager was a master registration that
\* the single-topic guard rejected.
C7_Witness ==
    /\ outcome.op = "register_broker"
    /\ outcome.ret = "guard"
    /\ outcome.result = None
    /\ outcome.call.broker_id = MASTER_ID
    /\ ever_live = {}
    /\ topic_queue_table = EmptyMap
    /\ broker_addr_table[outcome.call.broker_name].broker_addrs = EmptyMap

\* C8: a call of register_broker that returns null leaves the six tables as
\* they were before the call.
C8_NullResultLeavesTables ==
    [][(outcome'.op = "register_broker" /\ outcome'.ret = "guard" /\ outcome'.result = None)
          => tables' = tables]_vars

\* the case of C9: the group holds another address under the incoming id and
\* the live entry of that address has a greater stateVersion than the incoming
StaleCase(rim, a) ==
    /\ IsSome(a.wrapper.data_version)
    /\ a.broker_name \in DOMAIN rim.broker_addr_table
    /\ LET addrs == rim.broker_addr_table[a.broker_name].broker_addrs
       IN  /\ a.broker_id \in DOMAIN addrs
           /\ addrs[a.broker_id] # a.broker_addr
           /\ BrokerAddrInfo_new(a.cluster_name, addrs[a.broker_id])
                 \in DOMAIN rim.broker_live_table
           /\ rim.broker_live_table[BrokerAddrInfo_new(a.cluster_name, addrs[a.broker_id])]
                 .data_version.state_version
                     > Unwrap(a.wrapper.data_version).state_version

\* C9: a stale registration returns a present result with empty haServerAddr
\* and masterAddr, leaves no live entry for (clusterName, brokerAddr), keeps
\* brokerAddrs[brokerId] at the old address and leaves TopicQueueTable alone.
C9_StaleRegistration ==
    \A a \in CoreArgs :
        StaleCase(Rim, a) =>
            LET r == register_broker(Rim, a)
                old_addr == broker_addr_table[a.broker_name].broker_addrs[a.broker_id]
            IN  /\ r.result = Some([ha_server_addr |-> "", master_addr |-> ""])
                /\ ~(BrokerAddrInfo_new(a.cluster_name, a.broker_addr)
                        \in DOMAIN r.rim.broker_live_table)
                /\ r.rim.broker_addr_table[a.broker_name].broker_addrs[a.broker_id] = old_addr
                /\ r.rim.topic_queue_table = topic_queue_table

\* C9 witness: a registration has just been turned away as stale, its own live
\* entry of an earlier registration evicted, and topics are stored.
C9_Witness ==
    /\ outcome.op = "register_broker"
    /\ outcome.ret = "stale"
    /\ outcome.result = Some(RegisterBrokerResult_default)
    /\ BrokerAddrInfo_new(outcome.call.cluster_name, outcome.call.broker_addr) \in ever_live
    /\ broker_addr_table[outcome.call.broker_name].broker_addrs[outcome.call.broker_id]
          # outcome.call.broker_addr
    /\ topic_queue_table # EmptyMap

\* the case of C10: a slave that announces enableActingMaster = true, ends as
\* the smallest id of its group, and registers for the first time or with a
\* changed topic configuration
PrimeSlaveCase(rim, a, r) ==
    /\ a.broker_id > MASTER_ID
    /\ a.enable_acting_master = Some(TRUE)
    /\ IsSome(a.wrapper.topic_config_table)
    /\ IsSome(a.wrapper.data_version)
    /\ r.ret = "done"
    /\ a.broker_id = SetMin(DOMAIN r.rim.broker_addr_table[a.broker_name].broker_addrs)
    /\ \/ ~(a.broker_name \in DOMAIN rim.broker_addr_table)
       \/ ~(a.broker_id \in DOMAIN rim.broker_addr_table[a.broker_name].broker_addrs)
       \/ ~(BrokerAddrInfo_new(a.cluster_name, a.broker_addr) \in DOMAIN rim.broker_live_table)
       \/ rim.broker_live_table[BrokerAddrInfo_new(a.cluster_name, a.broker_addr)].data_version
             # Unwrap(a.wrapper.data_version)

\* C10: such a registration stores, for every incoming TopicConfig, a QueueData
\* under TopicQueueTable[topic][brokerName] whose perm is the incoming perm
\* with the WRITE bit cleared and every other bit kept.
C10_PrimeSlaveWriteMask ==
    \A a \in CoreArgs :
        LET r == register_broker(Rim, a)
        IN  PrimeSlaveCase(Rim, a, r) =>
               \A t \in DOMAIN Unwrap(a.wrapper.topic_config_table) :
                  /\ t \in DOMAIN r.rim.topic_queue_table
                  /\ a.broker_name \in DOMAIN r.rim.topic_queue_table[t]
                  /\ r.rim.topic_queue_table[t][a.broker_name].perm
                        = AndNot(Unwrap(a.wrapper.topic_config_table)[t].perm, PERM_WRITE)

\* ---------------------------------------------------------------- C11
\* the registration of C11: a slave (id 1) with enableActingMaster = true and the
\* single topic T, READ only
OnlySlaveReadOnly(a) ==
    /\ a.broker_id = 1
    /\ a.enable_acting_master = Some(TRUE)
    /\ a.wrapper.topic_config_table =
          Some([t \in {TopicPool[1]} |-> TopicConfig(TopicPool[1], PERM_READ)])

\* C11: from an empty manager with supportActingMaster = true, after the registration
\* of only a slave (id 1, address A, enableActingMaster = true) with the READ-only
\* topic T, pickupTopicRouteData(T) returns a route whose BrokerData of that broker
\* has brokerAddrs = {0 -> A}
C11_OnlySlaveIsPromoted ==
    (EmptyRim /\ namesrv_config.support_acting_master) =>
        \A a \in ActingArgs :
            OnlySlaveReadOnly(a) =>
                LET route == pickup_topic_route_data(register_broker(Rim, a).rim, TopicPool[1])
                IN  /\ IsSome(route)
                    /\ \E bd \in Unwrap(route).broker_datas :
                          /\ bd.broker_name = a.broker_name
                          /\ DOMAIN bd.broker_addrs = {MASTER_ID}
                          /\ bd.broker_addrs[MASTER_ID] = a.broker_addr

C13_PickupResultShape ==
    \A topic \in Topics :
        LET route == pickup_topic_route_data(Rim, topic)
            has_row == topic \in DOMAIN topic_queue_table
            names == IF has_row
                     THEN DOMAIN topic_queue_table[topic] \cap DOMAIN broker_addr_table
                     ELSE {}
        IN  /\ (route = None) <=> (~has_row \/ names = {})
            /\ IsSome(route) =>
                  /\ Unwrap(route).queue_datas =
                        {topic_queue_table[topic][n] : n \in DOMAIN topic_queue_table[topic]}
                  /\ {bd.broker_name : bd \in Unwrap(route).broker_datas} = names
                  /\ Cardinality(Unwrap(route).broker_datas) = Cardinality(names)
                  /\ Unwrap(route).topic_queue_mapping_by_broker =
                        Some(IF topic \in DOMAIN topic_queue_mapping_info_table
                             THEN topic_queue_mapping_info_table[topic]
                             ELSE EmptyMap)

\* a pickup has returned a route that carries a static-topic mapping
C13_Witness ==
    /\ outcome.op = "pickup_topic_route_data"
    /\ IsSome(outcome.result)
    /\ Unwrap(outcome.result).queue_datas # {}
    /\ Unwrap(outcome.result).broker_datas # {}
    /\ Unwrap(outcome.result).topic_queue_mapping_by_broker # Some(EmptyMap)

\* ---------------------------------------------------------------- C14
\* a call that carries a broker id below the previous minimum of a non-empty
\* group and is neither stale nor held by the single-topic guard
LowersMinBrokerId(rim, a, r) ==
    /\ rim.namesrv_config.notify_min_broker_id_changed
    /\ a.broker_name \in DOMAIN rim.broker_addr_table
    /\ DOMAIN rim.broker_addr_table[a.broker_name].broker_addrs # {}
    /\ a.broker_id < SetMin(DOMAIN rim.broker_addr_table[a.broker_name].broker_addrs)
    /\ ~(r.ret \in {"stale", "guard", "panic_data_version"})

\* C14: with notifyMinBrokerIdChanged enabled, a registerBroker call whose brokerId
\* is smaller than the previous minimum id of a non-empty group completes normally
\* and returns a result; it does not abort.
C14_MinIdNotificationCompletes ==
    namesrv_config.notify_min_broker_id_changed =>
        \A a \in ActingArgs :
            LET r == register_broker(Rim, a)
            IN  LowersMinBrokerId(Rim, a, r) => (r.ret = "done" /\ IsSome(r.result))

\* ---------------------------------------------------------------- C15
\* C15: registerBroker accepts a wrapper whose dataVersion is absent: every such
\* call returns without aborting, and an accepted one leaves the default
\* DataVersion in the live entry of (clusterName, brokerAddr).
C15_AbsentDataVersionAccepted ==
    \A a \in CoreArgs :
        ~IsSome(a.wrapper.data_version) =>
            LET r == register_broker(Rim, a)
                key == BrokerAddrInfo_new(a.cluster_name, a.broker_addr)
            IN  /\ Returned(r)
                /\ r.ret = "done" =>
                      /\ key \in DOMAIN r.rim.broker_live_table
                      /\ r.rim.broker_live_table[key].data_version = DataVersion_default

\* ---------------------------------------------------------------- C16
\* C16: after an accepted registration with brokerId # 0, if the group has an
\* address under id 0 and BrokerLiveTable has an entry for (clusterName, that
\* address), haServerAddr and masterAddr of the result both equal the haServerAddr
\* of that live entry; if the master address or its live entry is missing, or
\* brokerId = 0, both are empty strings.
C16_ResultAssembly ==
    (outcome.op = "register_broker" /\ outcome.ret = "done") =>
        LET call == outcome.call
            result == Unwrap(outcome.result)
            broker_addrs == broker_addr_table[call.broker_name].broker_addrs
            master_live ==
                /\ call.broker_id # MASTER_ID
                /\ MASTER_ID \in DOMAIN broker_addrs
                /\ BrokerAddrInfo_new(call.cluster_name, broker_addrs[MASTER_ID])
                      \in DOMAIN broker_live_table
        IN  IF master_live
            THEN LET info == broker_live_table[
                                BrokerAddrInfo_new(call.cluster_name, broker_addrs[MASTER_ID])]
                 IN  /\ result.ha_server_addr = info.ha_server_addr
                     /\ result.master_addr = info.ha_server_addr
            ELSE result.ha_server_addr = "" /\ result.master_addr = ""

\* a slave has been accepted and was told the HA address of its master
C16_Witness ==
    /\ outcome.op = "register_broker"
    /\ outcome.ret = "done"
    /\ outcome.call.broker_id # MASTER_ID
    /\ Unwrap(outcome.result).master_addr # ""
    /\ Unwrap(outcome.result).master_addr =
          broker_live_table[BrokerAddrInfo_new(outcome.call.cluster_name,
              broker_addr_table[outcome.call.broker_name].broker_addrs[MASTER_ID])].ha_server_addr

\* ---------------------------------------------------------------- C17
\* C17: the operations are mutually atomic. A pickup that runs while registrations
\* are attempted returns the route of a state no registration is in the middle of
\* (the state before or the state after each registration), and the registrations
\* take effect one after the other: from lock to return a registration sees only
\* its own updates and leaves the tables as register_broker on the state it
\* started from does.
C17_OperationsAreAtomic ==
    [][/\ \A t \in Readers :
             (IsSome(pending[t]) /\ pending'[t] = None) =>
                 /\ rw_lock.writer = None
                 /\ outcome'.result =
                       pickup_topic_route_data(Rim, Unwrap(pending[t]).topic)
       /\ \A t \in Writers :
             IsSome(pending[t]) =>
                 LET p == Unwrap(pending[t])
                 IN  /\ p.pc = "admit" => TablesOf(Rim) = TablesOf(p.before)
                     /\ p.pc = "complete" =>
                           TablesOf(Rim) = TablesOf(register_broker_admit(p.before, p.a))
                     /\ pending'[t] = None =>
                           tables' = TablesOf(register_broker(p.before, p.a).rim)]_vars

\* a registration is between its updates while a reader and the other writer wait
C17_Witness ==
    /\ \E t \in Writers : IsSome(pending[t]) /\ Unwrap(pending[t]).pc = "complete"
                          /\ TablesOf(Rim) # TablesOf(Unwrap(pending[t]).before)
                          /\ TablesOf(Rim) # TablesOf(register_broker(Unwrap(pending[t]).before,
                                                                      Unwrap(pending[t]).a).rim)
    /\ outcome.op = "pickup_topic_route_data"
    /\ IsSome(outcome.result)

\* ---------------------------------------------------------------- C18
\* the condition of the single-topic guard on the row left by the swap cleanup
SingleTopicOfUnknownId(rim, a) ==
    LET row == swap_cleanup(broker_row_upsert(rim.broker_addr_table, a)[a.broker_name],
                            a.broker_id, a.broker_addr)
    IN  /\ ~(a.broker_id \in DOMAIN row.broker_addrs)
        /\ IsSome(a.wrapper.topic_config_table)
        /\ Cardinality(DOMAIN Unwrap(a.wrapper.topic_config_table)) = 1

\* C18: registerBroker returns null if and only if, after the swap cleanup and the
\* stale check, brokerAddrs of the group does not contain brokerId and the topic
\* table of the wrapper has exactly one entry; the call then leaves brokerId out
\* of brokerAddrs and creates or refreshes no live entry.
C18_SingleTopicGuard ==
    \A a \in CoreArgs :
        LET r == register_broker(Rim, a)
        IN  /\ (r.ret = "guard") <=> SingleTopicOfUnknownId(Rim, a)
            /\ r.ret = "guard" =>
                  /\ r.result = None
                  /\ ~(a.broker_id \in
                          DOMAIN r.rim.broker_addr_table[a.broker_name].broker_addrs)
                  /\ r.rim.broker_live_table = broker_live_table
            /\ (r.result = None /\ Returned(r)) => r.ret = "guard"

\* a call was held by the guard: its id is not in the group, which has another
\* address, and the live entry of its address is an earlier one
C18_Witness ==
    /\ outcome.op = "register_broker"
    /\ outcome.ret = "guard"
    /\ outcome.result = None
    /\ ~(outcome.call.broker_id \in
            DOMAIN broker_addr_table[outcome.call.broker_name].broker_addrs)
    /\ BrokerAddrInfo_new(outcome.call.cluster_name, outcome.call.broker_addr)
          \in DOMAIN broker_live_table
    /\ DOMAIN broker_addr_table[outcome.call.broker_name].broker_addrs # {}

\* ---------------------------------------------------------------- C19
\* brokerAddrs[brokerId] holds another address whose live entry is missing or not
\* newer in stateVersion than the incoming data version
TieBreakCase(rim, a) ==
    /\ IsSome(a.wrapper.data_version)
    /\ a.broker_name \in DOMAIN rim.broker_addr_table
    /\ LET addrs == rim.broker_addr_table[a.broker_name].broker_addrs
       IN  /\ a.broker_id \in DOMAIN addrs
           /\ addrs[a.broker_id] # a.broker_addr
           /\ LET old_key == BrokerAddrInfo_new(a.cluster_name, addrs[a.broker_id])
              IN  \/ ~(old_key \in DOMAIN rim.broker_live_table)
                  \/ rim.broker_live_table[old_key].data_version.state_version
                        <= Unwrap(a.wrapper.data_version).state_version

\* the later registration has won
LaterRegistrationWins(r, a) ==
    /\ r.ret = "done"
    /\ r.rim.broker_addr_table[a.broker_name].broker_addrs[a.broker_id] = a.broker_addr
    /\ BrokerAddrInfo_new(a.cluster_name, a.broker_addr) \in DOMAIN r.rim.broker_live_table

\* C19: if brokerAddrs[brokerId] holds an address different from the incoming one
\* and the live entry of (clusterName, old address) is missing or has a stateVersion
\* less than or equal to the incoming stateVersion, then after the call
\* brokerAddrs[brokerId] is the incoming address and it has a live entry; timestamp
\* and counter of the two versions play no part.
C19_StateVersionTieBreak ==
    \A a \in VersionArgs :
        TieBreakCase(Rim, a) => LaterRegistrationWins(register_broker(Rim, a), a)

\* the older registration carries the same stateVersion with a greater timestamp
\* and a greater counter, and the later registration wins against it
C19_Witness ==
    \E a \in VersionArgs :
        /\ TieBreakCase(Rim, a)
        /\ LET old_key == BrokerAddrInfo_new(a.cluster_name,
                              broker_addr_table[a.broker_name].broker_addrs[a.broker_id])
               new_version == Unwrap(a.wrapper.data_version)
           IN  /\ old_key \in DOMAIN broker_live_table
               /\ broker_live_table[old_key].data_version.state_version
                     = new_version.state_version
               /\ broker_live_table[old_key].data_version.timestamp > new_version.timestamp
               /\ broker_live_table[old_key].data_version.counter > new_version.counter
        /\ LaterRegistrationWins(register_broker(Rim, a), a)

\* ---------------------------------------------------------------- C20
\* a brokerAddrs map with its smallest-id entry re-keyed to 0
RekeyedToMaster(broker_addrs) ==
    LET smallest == CHOOSE k \in DOMAIN broker_addrs : \A j \in DOMAIN broker_addrs : k <= j
    IN  [k \in (DOMAIN broker_addrs \ {smallest}) \cup {0} |->
            IF k = 0 THEN broker_addrs[smallest] ELSE broker_addrs[k]]

\* the stored row of broker_name is to be shown with an acting master for the topic
ActingMasterCase(topic, broker_name) ==
    /\ namesrv_config.support_acting_master
    /\ ~(topic \in SyncBrokerMemberGroupTopics)
    /\ DOMAIN broker_addr_table[broker_name].broker_addrs # {}
    /\ ~(0 \in DOMAIN broker_addr_table[broker_name].broker_addrs)
    /\ broker_addr_table[broker_name].enable_acting_master
    /\ (topic_queue_table[topic][broker_name].perm \div PERM_WRITE) % 2 = 0

\* C20: in the route returned by pickup, the brokerAddrs of a broker whose stored
\* row has addresses, no key 0 and enableActingMaster set, for a topic without
\* the sync-broker-member-group prefix whose QueueData of that broker is not
\* writeable, with supportActingMaster enabled, is the stored map with its
\* smallest-id entry re-keyed to 0 (same addresses, same number of entries); in
\* every other case it is the stored map.
C20_ActingMasterPromotion ==
    \A topic \in Topics :
        LET route == pickup_topic_route_data(Rim, topic)
        IN  IsSome(route) =>
                \A bd \in Unwrap(route).broker_datas :
                    LET stored == broker_addr_table[bd.broker_name].broker_addrs
                    IN  IF ActingMasterCase(topic, bd.broker_name)
                        THEN /\ bd.broker_addrs = RekeyedToMaster(stored)
                             /\ {bd.broker_addrs[k] : k \in DOMAIN bd.broker_addrs}
                                   = {stored[k] : k \in DOMAIN stored}
                             /\ Cardinality(DOMAIN bd.broker_addrs)
                                   = Cardinality(DOMAIN stored)
                        ELSE bd.broker_addrs = stored

\* a pickup has shown the smaller of two slaves as master of a read-only topic
C20_Witness ==
    /\ outcome.op = "pickup_topic_route_data"
    /\ IsSome(outcome.result)
    /\ \E bd \in Unwrap(outcome.result).broker_datas :
          /\ ActingMasterCase(outcome.call.topic, bd.broker_name)
          /\ DOMAIN broker_addr_table[bd.broker_name].broker_addrs = {1, 2}
          /\ DOMAIN bd.broker_addrs = {0, 2}
          /\ bd.broker_addrs[0] = broker_addr_table[bd.broker_name].broker_addrs[1]

\* ---------------------------------------------------------------- C21
\* the call comes from a slave that is not the smallest id of its group once its
\* id is inserted
NeitherMasterNorSmallest(rim, a) ==
    LET row == swap_cleanup(broker_row_upsert(rim.broker_addr_table, a)[a.broker_name],
                            a.broker_id, a.broker_addr)
    IN  /\ a.broker_id # 0
        /\ \E id \in DOMAIN row.broker_addrs : id < a.broker_id

\* C21: a registerBroker call whose brokerId is not 0 and is not the smallest id of
\* the group after insertion leaves TopicQueueTable and TopicQueueMappingInfoTable
\* unchanged, so the stored QueueData of the master keep their WRITE bit.
C21_OnlyMasterOrPrimeSlaveApplies ==
    \A a \in ActingArgs :
        NeitherMasterNorSmallest(Rim, a) =>
            LET r == register_broker(Rim, a)
            IN  /\ r.rim.topic_queue_table = topic_queue_table
                /\ r.rim.topic_queue_mapping_info_table = topic_queue_mapping_info_table

\* a master has stored a writeable QueueData of T, and a slave of the group is
\* accepted with a read-only config of T and a static-topic mapping of T
C21_Witness ==
    \E a \in ActingArgs :
        /\ NeitherMasterNorSmallest(Rim, a)
        /\ MASTER_ID \in DOMAIN broker_addr_table[a.broker_name].broker_addrs
        /\ TopicPool[1] \in DOMAIN topic_queue_table
        /\ a.broker_name \in DOMAIN topic_queue_table[TopicPool[1]]
        /\ (topic_queue_table[TopicPool[1]][a.broker_name].perm \div PERM_WRITE) % 2 = 1
        /\ IsSome(a.wrapper.topic_config_table)
        /\ TopicPool[1] \in DOMAIN Unwrap(a.wrapper.topic_config_table)
        /\ Unwrap(a.wrapper.topic_config_table)[TopicPool[1]].perm = PERM_READ
        /\ DOMAIN a.wrapper.topic_queue_mapping_info_map # {}
        /\ a.enable_acting_master = None
        /\ register_broker(Rim, a).ret = "done"
        /\ register_broker(Rim, a).rim.topic_queue_table = topic_queue_table

\* ---------------------------------------------------------------- C22
\* C22: isBrokerTopicConfigChanged(clusterName, brokerAddr, incomingVersion) is true
\* if and only if BrokerLiveTable has no entry for (clusterName, brokerAddr) or the
\* stored DataVersion differs from incomingVersion in stateVersion, timestamp or
\* counter; it is true for an address that has never registered.
C22_BrokerTopicConfigChanged ==
    \A cluster_name \in Clusters, broker_addr \in Addrs, incoming \in StampedDataVersions :
        LET key == BrokerAddrInfo_new(cluster_name, broker_addr)
        IN  is_broker_topic_config_changed(Rim, cluster_name, broker_addr, incoming)
                <=> \/ ~(key \in DOMAIN broker_live_table)
                    \/ broker_live_table[key].data_version.state_version
                          # incoming.state_version
                    \/ broker_live_table[key].data_version.timestamp # incoming.timestamp
                    \/ broker_live_table[key].data_version.counter # incoming.counter

\* ---------------------------------------------------------------- C23
\* register_broker on the manager with deleteTopicWithBrokerRegistration set to flag
RegisterWithDeletion(rim, a, flag) ==
    register_broker(
        [rim EXCEPT !.namesrv_config.delete_topic_with_broker_registration = flag], a)

\* C23: the topic deletion on registration never removes anything: every
\* registerBroker call leaves the same six tables and returns the same result with
\* deleteTopicWithBrokerRegistration enabled as with it disabled; the topics
\* selected for deletion hold no QueueData of the brokerName and no TopicQueueTable
\* row is empty.
C23_TopicDeletionRemovesNothing ==
    /\ \A topic \in DOMAIN topic_queue_table : DOMAIN topic_queue_table[topic] # {}
    /\ \A a \in DeleteArgs :
          LET enabled == RegisterWithDeletion(Rim, a, TRUE)
              disabled == RegisterWithDeletion(Rim, a, FALSE)
          IN  /\ TablesOf(enabled.rim) = TablesOf(disabled.rim)
              /\ enabled.result = disabled.result
              /\ enabled.ret = disabled.ret
              /\ IsSome(a.wrapper.topic_config_table) =>
                    \A topic \in DOMAIN Unwrap(a.wrapper.topic_config_table)
                                    \ topic_set_of_broker_name(Rim, a.broker_name) :
                        topic \in DOMAIN topic_queue_table =>
                            ~(a.broker_name \in DOMAIN topic_queue_table[topic])

\* with the deletion enabled, a broker is accepted with a topic it does not hold
\* yet and whose row holds the QueueData of another broker: the deletion loop
\* visits that row
C23_Witness ==
    /\ namesrv_config.delete_topic_with_broker_registration
    /\ \E a \in DeleteArgs :
          /\ IsSome(a.wrapper.topic_config_table)
          /\ DOMAIN a.wrapper.topic_queue_mapping_info_map = {}
          /\ \E topic \in DOMAIN Unwrap(a.wrapper.topic_config_table) :
                /\ topic \in DOMAIN topic_queue_table
                /\ ~(a.broker_name \in DOMAIN topic_queue_table[topic])
                /\ DOMAIN topic_queue_table[topic] # {}
                /\ register_broker(Rim, a).ret = "done"
                /\ Cardinality(DOMAIN register_broker(Rim, a).rim.topic_queue_table[topic]) = 2
          /\ \E topic \in DOMAIN topic_queue_table :
                a.broker_name \in DOMAIN topic_queue_table[topic]

====
